---- MODULE Spec2Model ----
(***************************************************************************)
(* A state-machine model of lib/common/grpc-service.js: one GrpcService    *)
(* instance (its credentials cache and its service registry), and a few    *)
(* logical calls made on it through request() and requestStream().         *)
(*                                                                         *)
(* JavaScript is single threaded: every handler below (a call of request,  *)
(* the credential provider's callback, the stub's callback, a retry timer) *)
(* runs to completion and is one action.  Calls interleave only at the     *)
(* asynchronous suspension points.                                         *)
(*                                                                         *)
(* Objects are records; the field "obj" together with "at" is the object's *)
(* identity (which attempt of which kind produced it), so that record      *)
(* equality models the === of the source.                                  *)
(*                                                                         *)
(* The static helpers (the value codec, getError_, shouldRetryRequest_)    *)
(* are exercised by specifications of their own, SpecCodec and SpecErrors, *)
(* whose initial states draw the argument from a bounded set of values.    *)
(***************************************************************************)
EXTENDS Integers, Sequences, FiniteSets, TLC

(* ------------------------------ bounds -------------------------------- *)

\* Number of logical calls made on the instance.
NumCalls == 2

\* options.maxRetries is drawn from 0..MaxRetriesBound.
MaxRetriesBound == 2

\* Number of distinct callSpec (protoOpts) objects callers hold.
NumSpecs == 2

\* The stub reports transport codes 0..MaxStubCode (the table ends at 16).
MaxStubCode == 17

\* With several calls in flight, options.maxRetries is drawn from
\* 0..MaxRetriesShared.
MaxRetriesShared == 1

\* Chunks a caller-visible stream receives at most.
MaxData == 1

\* Responses carry a code among 0..MaxResponseCode, or none.
MaxResponseCode == 504

Calls == 1..NumCalls

ProtoOpts == 1..NumSpecs

(* --------------------------- values, objects --------------------------- *)

\* An object without a "code" field (err.code is undefined).
NoCode == -1

\* this.grpcCredentials not set (falsy).
Absent == 0

\* grpc.credentials.createInsecure(): one value, never produced by a call.
Insecure == -1

\* null / undefined.
Null == [obj |-> "null", at |-> 0, code |-> NoCode, message |-> ""]

\* The error the stub passes to its callback on attempt `at`.
RawError(at, code) ==
    [obj |-> "raw", at |-> at, code |-> code, message |-> "transport"]

\* The payload the stub passes to its callback on attempt `at`; some payloads
\* carry a field named "code" of their own.
Payload(at, code) ==
    [obj |-> "payload", at |-> at, code |-> code, message |-> ""]

\* The error the credential provider reports to call c.
AuthError(c) ==
    [obj |-> "auth", at |-> c, code |-> NoCode, message |-> "auth"]

GRPC_ERROR_CODE_TO_HTTP ==
    [c \in 0..16 |->
        CASE c = 0  -> [code |-> 200, message |-> "OK"]
          [] c = 1  -> [code |-> 499, message |-> "Client Closed Request"]
          [] c = 2  -> [code |-> 500, message |-> "Internal Server Error"]
          [] c = 3  -> [code |-> 400, message |-> "Bad Request"]
          [] c = 4  -> [code |-> 504, message |-> "Gateway Timeout"]
          [] c = 5  -> [code |-> 404, message |-> "Not Found"]
          [] c = 6  -> [code |-> 409, message |-> "Conflict"]
          [] c = 7  -> [code |-> 403, message |-> "Forbidden"]
          [] c = 8  -> [code |-> 429, message |-> "Too Many Requests"]
          [] c = 9  -> [code |-> 412, message |-> "Precondition Failed"]
          [] c = 10 -> [code |-> 409, message |-> "Conflict"]
          [] c = 11 -> [code |-> 400, message |-> "Bad Request"]
          [] c = 12 -> [code |-> 501, message |-> "Not Implemented"]
          [] c = 13 -> [code |-> 500, message |-> "Internal Server Error"]
          [] c = 14 -> [code |-> 503, message |-> "Service Unavailable"]
          [] c = 15 -> [code |-> 500, message |-> "Internal Server Error"]
          [] c = 16 -> [code |-> 401, message |-> "Unauthorized"]]

\* getError_ with a default entry: a code off the table is reported as 500.
getErrorDefaultsTo500(err) ==
    IF err.code \in DOMAIN GRPC_ERROR_CODE_TO_HTTP
    THEN [err EXCEPT !.obj = "norm",
                     !.code = GRPC_ERROR_CODE_TO_HTTP[err.code].code,
                     !.message = GRPC_ERROR_CODE_TO_HTTP[err.code].message]
    ELSE [err EXCEPT !.obj = "norm",
                     !.code = GRPC_ERROR_CODE_TO_HTTP[2].code,
                     !.message = GRPC_ERROR_CODE_TO_HTTP[2].message]

\* getError_ testing the code for truthiness first: code 0 has no entry.
getErrorSkipsZero(err) ==
    IF err.code # 0 /\ err.code \in DOMAIN GRPC_ERROR_CODE_TO_HTTP
    THEN [err EXCEPT !.obj = "norm",
                     !.code = GRPC_ERROR_CODE_TO_HTTP[err.code].code,
                     !.message = GRPC_ERROR_CODE_TO_HTTP[err.code].message]
    ELSE Null

\* GrpcService.getError_: a new object, err overlaid with the table entry.
getError_(err) ==
    IF err.code \in DOMAIN GRPC_ERROR_CODE_TO_HTTP
    THEN [err EXCEPT !.obj = "norm",
                     !.code = GRPC_ERROR_CODE_TO_HTTP[err.code].code,
                     !.message = GRPC_ERROR_CODE_TO_HTTP[err.code].message]
    ELSE Null

\* A call of getError_ (lines 458-463): what it returns, and err after it.
\* The target of extend is a new object (line 460), so err is as it was.
getErrorCall(err) == [ret |-> getError_(err), err |-> err]

\* shouldRetryRequest_ testing indexOf(...) > 0: the first code is missed.
shouldRetryIndexPositive(response) ==
    response.code \in {500, 502, 503}

\* shouldRetryRequest_ retrying every server error, 504 included.
shouldRetryAny5xx(response) ==
    response.code = 429 \/ response.code >= 500

\* GrpcService.shouldRetryRequest_
shouldRetryRequest_(response) ==
    response.code \in {429, 500, 502, 503}

\* The httpLikeCodes the retry policy names.
RetryCodes == {429, 500, 502, 503}

\* A transport code whose table entry carries one of the RetryCodes.
RetryableTransport(code) ==
    /\ code \in DOMAIN GRPC_ERROR_CODE_TO_HTTP
    /\ GRPC_ERROR_CODE_TO_HTTP[code].code \in RetryCodes

\* The normalized error of a raw error whose code is in the table: the same
\* fields, with the table entry's code and message.
Normalized(err) ==
    [obj |-> "norm", at |-> err.at,
     code |-> GRPC_ERROR_CODE_TO_HTTP[err.code].code,
     message |-> GRPC_ERROR_CODE_TO_HTTP[err.code].message]

\* The codes the stub may fail with: 0..MaxStubCode, or an error without code.
StubCodes == (0..MaxStubCode) \cup {NoCode}

\* The "code" field of a successful payload: none, or a number of its own.
PayloadCodes == {NoCode, 429}

\* A sample of them: OK, not found, rate limited, and a code off the table.
SampleCodes == {0, 5, 8, MaxStubCode}

\* What the stub passes to its callback on attempt `at`: (err) or (null, resp).
StubOutcomes(at, codes) ==
    {[err |-> RawError(at, code), resp |-> Null] : code \in codes}
        \cup {[err |-> Null, resp |-> Payload(at, code)] : code \in PayloadCodes}


(* ------------------------------ value codec ---------------------------- *)

\* Lists hold at most MaxLen elements.
MaxLen == 2

\* Property names of the objects that are encoded.
Keys == {"a", "b"}

\* Native values, tagged by what the encoder's type tests see.
JNull == [t |-> "null"]

JUndefined == [t |-> "undefined"]

JNum(n) == [t |-> "number", v |-> n]

JStr(s) == [t |-> "string", v |-> s]

JBool(b) == [t |-> "boolean", v |-> b]

\* A Buffer.
JBlob(b) == [t |-> "blob", v |-> b]

\* A plain object: its own enumerable properties.
JObj(f) == [t |-> "object", v |-> f]

\* An array.
JList(q) == [t |-> "array", v |-> q]

\* A value none of the type tests of encodeValue_ recognizes (a function).
JOther == [t |-> "other", v |-> "fn"]

\* String(value) of a value the encoder does not recognize.
StringOf(value) ==
    IF value = JUndefined THEN "undefined" ELSE "function () {}"

\* A message: an object literal with the one property k.
Msg(k, content) == [p \in {k} |-> content]

\* encodeValue_ threw (line 426).
Thrown == [t |-> "thrown", v |-> "not recognized"]

IsThrown(r) == "t" \in DOMAIN r

\* options.stringify after `options = options || {}` (lines 390 and 528):
\* set only on an options object; a list index passed by map has none.
Stringify(options) ==
    /\ options.t = "object"
    /\ "stringify" \in DOMAIN options.v
    /\ options.v["stringify"] = JBool(TRUE)

RECURSIVE encodeValue_(_, _)

RECURSIVE objToStruct_(_, _)

\* GrpcService.objToStruct_ (lines 527-547): undefined properties are skipped,
\* the others are encoded with the options.
objToStruct_(obj, options) ==
    LET kept == {prop \in DOMAIN obj.v : obj.v[prop] # JUndefined}
        fields == [prop \in kept |-> encodeValue_(obj.v[prop], options)]
    IN  IF \E prop \in kept : IsThrown(fields[prop])
        THEN Thrown
        ELSE Msg("fields", fields)

\* GrpcService.encodeValue_ (lines 389-435).  A nested object is encoded
\* without options (line 415); map calls encodeValue_ with (element, index), so
\* an element's options are its index (line 421).
encodeValue_(value, options) ==
    CASE value.t = "null" -> Msg("nullValue", JNum(0))
      [] value.t = "number" -> Msg("numberValue", value)
      [] value.t = "string" -> Msg("stringValue", value)
      [] value.t = "boolean" -> Msg("boolValue", value)
      [] value.t = "blob" -> Msg("blobValue", value)
      [] value.t = "object" ->
            IF IsThrown(objToStruct_(value, JUndefined))
            THEN Thrown
            ELSE Msg("structValue", objToStruct_(value, JUndefined))
      [] value.t = "array" ->
            LET values == [i \in DOMAIN value.v |->
                              encodeValue_(value.v[i], JNum(i - 1))]
            IN  IF \E i \in DOMAIN values : IsThrown(values[i])
                THEN Thrown
                ELSE Msg("listValue", Msg("values", values))
      [] OTHER ->
            IF ~Stringify(options)
            THEN Thrown
            ELSE Msg("stringValue", JStr(StringOf(value)))

\* object[key]: undefined when the object has no such property.
Get(object, key) ==
    IF key \in DOMAIN object THEN object[key] ELSE JUndefined

\* The property name a value used as a key stands for.
PropKey(value) ==
    IF value.t = "string" THEN value.v ELSE "undefined"

RECURSIVE decodeValue_(_)

RECURSIVE structToObj_(_)

\* GrpcService.structToObj_ (lines 570-581).
structToObj_(struct) ==
    JObj([prop \in DOMAIN struct["fields"] |->
             decodeValue_(struct["fields"][prop])])

\* GrpcService.decodeValue_ (lines 353-371): a switch on value.kind.
decodeValue_(value) ==
    CASE Get(value, "kind") = JStr("structValue") ->
            structToObj_(value["structValue"])
      [] Get(value, "kind") = JStr("nullValue") -> JNull
      [] Get(value, "kind") = JStr("listValue") ->
            JList([i \in DOMAIN value["listValue"]["values"] |->
                      decodeValue_(value["listValue"]["values"][i])])
      [] OTHER -> Get(value, PropKey(Get(value, "kind")))

\* Values without structure.
Leaves ==
    {JNull, JNum(1), JStr("s"), JBool(TRUE), JBlob(1), JUndefined, JOther}

\* Lists of at most MaxLen elements of V.
ListsOf(V) ==
    {JList(q) : q \in UNION {[1..n -> V] : n \in 0..MaxLen}}

\* Objects whose properties are among Keys, with values of V.
ObjectsOf(V) ==
    {JObj(f) : f \in UNION {[K -> V] : K \in SUBSET Keys}}

\* Leaves, and lists and objects of leaves.
Shallow == Leaves \cup ListsOf(Leaves) \cup ObjectsOf(Leaves)

\* The values given to the encoder.
CodecInputs == Shallow \cup ObjectsOf(Shallow)

\* The options given to the encoder: none, or an object with stringify.
CodecOptions ==
    {JUndefined, JObj(Msg("stringify", JBool(FALSE))),
     JObj(Msg("stringify", JBool(TRUE)))}


(* -------------------------------- state -------------------------------- *)

VARIABLES
    sandbox,            \* global.GCLOUD_SANDBOX_ENV is set
    maxRetries,         \* this.maxRetries
    stubCodes,          \* the transport codes the service behind the stub uses
    grpcCredentials,    \* this.grpcCredentials: Absent, Insecure, or the id of
                        \* the acquisition (the call) that combined them
    activeServiceMap_,  \* this.activeServiceMap_: service name -> stub
    constructed,        \* per service name: stubs constructed so far
    protoOptsStream,    \* per callSpec object: its "stream" field (0: none)
    kind,               \* per call: "none" (not made yet), "unary", "stream",
                        \* "unused" (never made)
    callSpec,           \* per call: the callSpec object passed (0: none yet)
    pc,                 \* per call: where the call is
    ret,                \* per call: what request/requestStream returned
    startedWithCreds,   \* per call: credentials were present when it was made
    authCalls,          \* per call: invocations of the credential provider
    service,            \* per call: the stub getService_ returned
    numAttempts,        \* per call: the retry layer's attempt counter
    stubCalls,          \* per call: invocations of the stub method
    respError,          \* per call: the closure variable respError
    inFlight,           \* per call: stub invocations that have not called back
    cb,                 \* per call: invocations of the caller's callback
    last,               \* per call: what the stub passed to its latest callback
    firstOk,            \* per call: the first payload the stub succeeded with
    retryableFails,     \* per call: attempts failed with a retryable code
    authFailed,         \* per call: the credential provider reported an error
    startedAfterFailure,\* per call: made after an acquisition had failed
    streamOf,           \* per call: the caller-visible stream (0: none)
    underlying,         \* per call: the underlying stub call of a stream call
    piped,              \* per call: the retry stream is piped into the stream
    destroyArg,         \* per call: what it last passed to stream.destroy
    destroyed,          \* per stream: destroy() has run
    destroyErr,         \* per stream: the error it was destroyed with
    delivered,          \* per stream: chunks delivered to it
    callerDestroyed,    \* per stream: the caller destroyed it
    fn,                 \* the static helper applied last ("none": none yet)
    arg,                \* the value it was applied to
    opts,               \* the options it was given
    out,                \* what it returned, or Thrown
    back,               \* what the next helper returned for `out`
    argAfter            \* the argument object after the call

instVars == <<sandbox, maxRetries, stubCodes, grpcCredentials,
              activeServiceMap_, constructed, protoOptsStream>>

callVars == <<kind, callSpec, pc, ret, startedWithCreds, authCalls, service,
              numAttempts, stubCalls, respError, inFlight, cb, last, firstOk,
              retryableFails, authFailed, startedAfterFailure>>

streamVars == <<streamOf, underlying, piped, destroyArg, destroyed, destroyErr,
                delivered, callerDestroyed>>

pureVars == <<fn, arg, opts, out, back, argAfter>>

vars == <<instVars, callVars, streamVars, pureVars>>

\* No stub: the registry misses, or the call has not resolved its service.
NoStub == [svc |-> 0, creds |-> Absent, n |-> 0]

\* The callback has not been invoked.
NoCallback == [count |-> 0, err |-> Null, resp |-> Null]

\* What the stub has passed so far: nothing.
NoOutcome == [err |-> Null, resp |-> Null]

\* protoOpts.service: each callSpec object names its own service.
ServiceOf(p) == p

\* getService_ without the lookup: a stub is constructed and stored each time.
getServiceAlwaysConstructs(map, p, creds) ==
    [map |-> [map EXCEPT ![ServiceOf(p)] =
                 [svc |-> ServiceOf(p), creds |-> creds,
                  n |-> constructed[ServiceOf(p)] + 1]],
     stub |-> [svc |-> ServiceOf(p), creds |-> creds,
               n |-> constructed[ServiceOf(p)] + 1],
     isNew |-> TRUE]

\* GrpcService.prototype.getService_: the registry after the lookup, the stub
\* returned, and whether the lookup constructed it.
getService_(map, p, creds) ==
    IF map[ServiceOf(p)] # NoStub
    THEN [map |-> map, stub |-> map[ServiceOf(p)], isNew |-> FALSE]
    ELSE LET stub == [svc |-> ServiceOf(p), creds |-> creds,
                      n |-> constructed[ServiceOf(p)] + 1]
         IN  [map |-> [map EXCEPT ![ServiceOf(p)] = stub],
              stub |-> stub, isNew |-> TRUE]

\* The stub's callback handing the raw error, not the translated one, to the
\* retry layer.
onStubCallbackRawResponse(err, resp) ==
    IF err # Null
    THEN IF getError_(err) # Null
         THEN [respError |-> getError_(err), err |-> Null, resp |-> err]
         ELSE [respError |-> Null, err |-> err, resp |-> resp]
    ELSE [respError |-> Null, err |-> Null, resp |-> resp]

\* The callback given to the stub method (request, lines 245-259): what it
\* stores in respError and what it hands to the retry layer's onResponse.
onStubCallback(err, resp) ==
    IF err # Null
    THEN IF getError_(err) # Null
         THEN [respError |-> getError_(err), err |-> Null,
               resp |-> getError_(err)]
         ELSE [respError |-> Null, err |-> err, resp |-> resp]
    ELSE [respError |-> Null, err |-> Null, resp |-> resp]

\* The retry mechanism (retry-request): after an attempt has answered, whether
\* it runs the producer again.  An error ends the call; a response is judged by
\* shouldRetryFn while attempts remain.
retryLayerRetries(err, response, attempts, retries) ==
    /\ err = Null
    /\ attempts <= retries
    /\ shouldRetryRequest_(response)

\* The final callback forgetting to clear the response when it reports the
\* retained error.
onRetryDoneKeepsResp(err, resp, rErr) ==
    IF err = Null /\ resp = rErr
    THEN [err |-> rErr, resp |-> resp]
    ELSE [err |-> err, resp |-> resp]

\* The callback given to retryRequest (request, lines 263-270): the arguments
\* it passes to the caller's callback.
onRetryDone(err, resp, rErr) ==
    IF err = Null /\ resp = rErr
    THEN [err |-> rErr, resp |-> Null]
    ELSE [err |-> err, resp |-> resp]

\* One more invocation of the caller's callback.
Called(old, err, resp) ==
    [count |-> old.count + 1, err |-> err, resp |-> resp]

\* The sandbox test left out: no call short-circuits.
inSandboxIgnored(env) == FALSE

\* global.GCLOUD_SANDBOX_ENV is truthy (the test of lines 198 and 284).
inSandbox(env) == env

\* The gate taking only the insecure credentials for ready.
credentialsReadyInsecureOnly(creds) == creds = Insecure

\* The gate left out: every call proceeds.
credentialsReadyAlways(creds) == TRUE

\* this.grpcCredentials is truthy (the gate of lines 204 and 296).
credentialsReady(creds) == creds # Absent

\* getGrpcCredentials_ reporting a new error object in place of the provider's.
getGrpcCredentialsWrapsError(c, ok) ==
    IF ok
    THEN [err |-> Null, credentials |-> c]
    ELSE [err |-> [AuthError(c) EXCEPT !.obj = "wrapped"],
          credentials |-> Absent]

\* GrpcService.prototype.getGrpcCredentials_ for call c, when the credential
\* provider answers: its error as it is, or new combined credentials.
getGrpcCredentials_(c, ok) ==
    IF ok
    THEN [err |-> Null, credentials |-> c]
    ELSE [err |-> AuthError(c), credentials |-> Absent]

\* The status listener of requestStream (lines 328-332): the response it emits.
onStatus(status) ==
    IF getError_(status) # Null THEN getError_(status) ELSE status

\* The error listener passing the raw error on untranslated.
onStreamErrorRaw(err) == err

\* The error listener of requestStream (lines 337-341): what it passes to
\* stream.destroy.
onStreamError(err) ==
    IF getError_(err) # Null THEN getError_(err) ELSE err

(* --------------------------------- Init -------------------------------- *)

\* Everything but the environment's choices, after construction.
InitState ==
    /\ activeServiceMap_ = [s \in ProtoOpts |-> NoStub]
    /\ constructed = [s \in ProtoOpts |-> 0]
    /\ protoOptsStream = [p \in ProtoOpts |-> 0]
    /\ callSpec = [c \in Calls |-> 0]
    /\ pc = [c \in Calls |-> "idle"]
    /\ ret = [c \in Calls |-> "none"]
    /\ startedWithCreds = [c \in Calls |-> FALSE]
    /\ authCalls = [c \in Calls |-> 0]
    /\ service = [c \in Calls |-> NoStub]
    /\ numAttempts = [c \in Calls |-> 0]
    /\ stubCalls = [c \in Calls |-> 0]
    /\ respError = [c \in Calls |-> Null]
    /\ inFlight = [c \in Calls |-> 0]
    /\ cb = [c \in Calls |-> NoCallback]
    /\ last = [c \in Calls |-> NoOutcome]
    /\ firstOk = [c \in Calls |-> Null]
    /\ retryableFails = [c \in Calls |-> 0]
    /\ authFailed = [c \in Calls |-> FALSE]
    /\ startedAfterFailure = [c \in Calls |-> FALSE]
    /\ streamOf = [c \in Calls |-> 0]
    /\ underlying = [c \in Calls |-> "none"]
    /\ piped = [c \in Calls |-> FALSE]
    /\ destroyArg = [c \in Calls |-> Null]
    /\ destroyed = [s \in Calls |-> FALSE]
    /\ destroyErr = [s \in Calls |-> Null]
    /\ delivered = [s \in Calls |-> 0]
    /\ callerDestroyed = [s \in Calls |-> FALSE]

\* No static helper is being exercised.
InitPure ==
    /\ fn = "none"
    /\ arg = JUndefined
    /\ opts = JUndefined
    /\ out = JUndefined
    /\ back = JUndefined
    /\ argAfter = JUndefined

\* The state after construction, before NumCalls calls that may overlap.
\* config.customEndpoint sets the insecure credentials at once (lines 157-159);
\* the sandbox flag is set, or not, before any call is made.
Init ==
    /\ sandbox \in BOOLEAN
    /\ maxRetries \in 0..MaxRetriesShared
    /\ stubCodes = SampleCodes
    /\ grpcCredentials \in {Absent, Insecure}
    /\ kind = [c \in Calls |-> "none"]
    /\ InitState
    /\ InitPure

\* The state after construction, before one call, against a stub that may
\* fail with any code.
InitCall ==
    /\ sandbox = FALSE
    /\ maxRetries \in 0..MaxRetriesBound
    /\ stubCodes = StubCodes
    /\ grpcCredentials \in {Absent, Insecure}
    /\ kind = [c \in Calls |-> IF c = 1 THEN "none" ELSE "unused"]
    /\ InitState
    /\ InitPure

(* ------------------------------ unary call ----------------------------- *)

\* One respError for the whole instance, whichever call uses it.
respErrorOnInstance(c) == 1

\* The respError a call of request uses: `var respError` (line 232) is
\* declared in the body of request, one variable for each call.
respErrorOf(c) == c

\* getService_ as the two call paths use it (lines 223 and 314): the registry,
\* the construction count and the call's stub after the lookup.
resolveService(c, p, creds) ==
    /\ activeServiceMap_' = getService_(activeServiceMap_, p, creds).map
    /\ constructed' =
          IF getService_(activeServiceMap_, p, creds).isNew
          THEN [constructed EXCEPT ![ServiceOf(p)] = @ + 1]
          ELSE constructed
    /\ service' = [service EXCEPT
                      ![c] = getService_(activeServiceMap_, p, creds).stub]

\* request, lines 219-270, with credentials `creds` on the instance: resolve
\* the service, hand the producer to the retry layer, which runs it at once
\* (attempt 1: respError = null, the stub method is invoked).
requestBody(c, p, creds) ==
    /\ resolveService(c, p, creds)
    /\ numAttempts' = [numAttempts EXCEPT ![c] = 1]
    /\ stubCalls' = [stubCalls EXCEPT ![c] = @ + 1]
    /\ inFlight' = [inFlight EXCEPT ![c] = @ + 1]
    /\ respError' = [respError EXCEPT ![respErrorOf(c)] = Null]
    /\ pc' = [pc EXCEPT ![c] = "inflight"]

\* request(protoOpts, reqOpts, callback): the synchronous part of the call.
request(c, p) ==
    /\ kind[c] = "none"
    /\ \A d \in Calls : d < c => kind[d] # "none"
    /\ kind' = [kind EXCEPT ![c] = "unary"]
    /\ callSpec' = [callSpec EXCEPT ![c] = p]
    /\ startedWithCreds' =
          [startedWithCreds EXCEPT ![c] = grpcCredentials # Absent]
    /\ startedAfterFailure' =
          [startedAfterFailure EXCEPT ![c] = \E d \in Calls : authFailed[d]]
    /\ IF inSandbox(sandbox)
       THEN /\ ret' = [ret EXCEPT ![c] = "sentinel"]
            /\ pc' = [pc EXCEPT ![c] = "done"]
            /\ UNCHANGED <<authCalls, activeServiceMap_, constructed, service,
                           numAttempts, stubCalls, respError, inFlight>>
       ELSE IF ~credentialsReady(grpcCredentials)
       THEN /\ ret' = [ret EXCEPT ![c] = "undefined"]
            /\ authCalls' = [authCalls EXCEPT ![c] = @ + 1]
            /\ pc' = [pc EXCEPT ![c] = "auth"]
            /\ UNCHANGED <<activeServiceMap_, constructed, service,
                           numAttempts, stubCalls, respError, inFlight>>
       ELSE /\ ret' = [ret EXCEPT ![c] = "undefined"]
            /\ requestBody(c, p, grpcCredentials)
            /\ UNCHANGED authCalls
    /\ UNCHANGED pureVars
    /\ UNCHANGED <<sandbox, maxRetries, stubCodes, grpcCredentials,
                   protoOptsStream, cb, last, firstOk, retryableFails,
                   authFailed, streamVars>>

\* The callback request gives to getGrpcCredentials_ (lines 206-214), run when
\* the credential provider answers: with an error, or with an auth client that
\* getGrpcCredentials_ combines into new credentials.
requestAuthCallback(c, ok) ==
    /\ kind[c] = "unary"
    /\ pc[c] = "auth"
    /\ LET r == getGrpcCredentials_(c, ok)
       IN  IF r.err # Null
           THEN /\ cb' = [cb EXCEPT ![c] = Called(@, r.err, Null)]
                /\ pc' = [pc EXCEPT ![c] = "done"]
                /\ UNCHANGED <<grpcCredentials, activeServiceMap_,
                               constructed, service, numAttempts, stubCalls,
                               respError, inFlight>>
           ELSE /\ grpcCredentials' = r.credentials
                /\ requestBody(c, callSpec[c], r.credentials)
                /\ UNCHANGED cb
    /\ authFailed' = [authFailed EXCEPT ![c] = ~ok]
    /\ UNCHANGED pureVars
    /\ UNCHANGED <<sandbox, maxRetries, stubCodes, protoOptsStream, kind,
                   callSpec, ret, startedWithCreds, authCalls, last, firstOk,
                   retryableFails, startedAfterFailure, streamVars>>

\* The stub method calls back (lines 245-259), the retry layer judges the
\* answer, and either schedules the next attempt or runs the final callback
\* (lines 263-270).
stubCallback(c, o) ==
    /\ kind[c] = "unary"
    /\ pc[c] = "inflight"
    /\ LET r == onStubCallback(o.err, o.resp)
           f == onRetryDone(r.err, r.resp, r.respError)
       IN  /\ respError' = [respError EXCEPT ![respErrorOf(c)] = r.respError]
           /\ IF retryLayerRetries(r.err, r.resp, numAttempts[c], maxRetries)
              THEN /\ pc' = [pc EXCEPT ![c] = "backoff"]
                   /\ UNCHANGED cb
              ELSE /\ pc' = [pc EXCEPT ![c] = "done"]
                   /\ cb' = [cb EXCEPT ![c] = Called(@, f.err, f.resp)]
    /\ inFlight' = [inFlight EXCEPT ![c] = @ - 1]
    /\ last' = [last EXCEPT ![c] = o]
    /\ firstOk' = [firstOk EXCEPT
                      ![c] = IF @ = Null /\ o.err = Null THEN o.resp ELSE @]
    /\ retryableFails' =
          [retryableFails EXCEPT
              ![c] = IF o.err # Null /\ RetryableTransport(o.err.code)
                     THEN @ + 1 ELSE @]
    /\ UNCHANGED pureVars
    /\ UNCHANGED <<instVars, kind, callSpec, ret, startedWithCreds, authCalls,
                   service, numAttempts, stubCalls, authFailed,
                   startedAfterFailure, streamVars>>

\* The retry layer's timer fires: the producer runs again (lines 242-245).
retryTimer(c) ==
    /\ kind[c] = "unary"
    /\ pc[c] = "backoff"
    /\ numAttempts' = [numAttempts EXCEPT ![c] = @ + 1]
    /\ respError' = [respError EXCEPT ![respErrorOf(c)] = Null]
    /\ stubCalls' = [stubCalls EXCEPT ![c] = @ + 1]
    /\ inFlight' = [inFlight EXCEPT ![c] = @ + 1]
    /\ pc' = [pc EXCEPT ![c] = "inflight"]
    /\ UNCHANGED pureVars
    /\ UNCHANGED <<instVars, kind, callSpec, ret, startedWithCreds, authCalls,
                   service, cb, last, firstOk, retryableFails, authFailed,
                   startedAfterFailure, streamVars>>

(* ----------------------------- streaming call -------------------------- *)

\* stream.destroy(err) on stream s (through2): the first call marks the stream
\* destroyed and emits err and close, and close unpipes every source piped into
\* it; a later call does nothing.
destroyStream(s, err) ==
    IF destroyed[s]
    THEN UNCHANGED <<destroyed, destroyErr, piped>>
    ELSE /\ destroyed' = [destroyed EXCEPT ![s] = TRUE]
         /\ destroyErr' = [destroyErr EXCEPT ![s] = err]
         /\ piped' = [d \in Calls |-> IF streamOf[d] = s THEN FALSE ELSE piped[d]]

\* requestStream, lines 311-342, with credentials `creds` on the instance:
\* resolve the service, let the retry layer open the underlying call (attempt
\* 1) and pipe the retry stream into the caller-visible stream.
requestStreamBody(c, p, creds) ==
    /\ resolveService(c, p, creds)
    /\ numAttempts' = [numAttempts EXCEPT ![c] = 1]
    /\ stubCalls' = [stubCalls EXCEPT ![c] = @ + 1]
    /\ underlying' = [underlying EXCEPT ![c] = "open"]
    /\ piped' = [piped EXCEPT ![c] = TRUE]
    /\ pc' = [pc EXCEPT ![c] = "open"]

\* requestStream(protoOpts, reqOpts): the synchronous part of the call.
requestStream(c, p) ==
    /\ kind[c] = "none"
    /\ \A d \in Calls : d < c => kind[d] # "none"
    /\ kind' = [kind EXCEPT ![c] = "stream"]
    /\ callSpec' = [callSpec EXCEPT ![c] = p]
    /\ startedWithCreds' =
          [startedWithCreds EXCEPT ![c] = grpcCredentials # Absent]
    /\ startedAfterFailure' =
          [startedAfterFailure EXCEPT ![c] = \E d \in Calls : authFailed[d]]
    /\ IF inSandbox(sandbox)
       THEN /\ ret' = [ret EXCEPT ![c] = "emptyStream"]
            /\ pc' = [pc EXCEPT ![c] = "done"]
            /\ UNCHANGED <<authCalls, activeServiceMap_, constructed, service,
                           numAttempts, stubCalls, protoOptsStream, streamOf,
                           underlying, piped>>
       ELSE /\ ret' = [ret EXCEPT ![c] = "stream"]
            /\ protoOptsStream' =
                  [protoOptsStream EXCEPT ![p] = IF @ = 0 THEN c ELSE @]
            /\ streamOf' = [streamOf EXCEPT ![c] = protoOptsStream'[p]]
            /\ IF ~credentialsReady(grpcCredentials)
               THEN /\ authCalls' = [authCalls EXCEPT ![c] = @ + 1]
                    /\ pc' = [pc EXCEPT ![c] = "auth"]
                    /\ UNCHANGED <<activeServiceMap_, constructed, service,
                                   numAttempts, stubCalls, underlying, piped>>
               ELSE /\ requestStreamBody(c, p, grpcCredentials)
                    /\ UNCHANGED authCalls
    /\ UNCHANGED pureVars
    /\ UNCHANGED <<sandbox, maxRetries, stubCodes, grpcCredentials, respError, inFlight,
                   cb, last, firstOk, retryableFails, authFailed, destroyArg,
                   destroyed, destroyErr, delivered, callerDestroyed>>

\* The callback requestStream gives to getGrpcCredentials_ (lines 298-306).
requestStreamAuthCallback(c, ok) ==
    /\ kind[c] = "stream"
    /\ pc[c] = "auth"
    /\ LET r == getGrpcCredentials_(c, ok)
       IN  IF r.err # Null
           THEN /\ destroyStream(streamOf[c], r.err)
                /\ destroyArg' = [destroyArg EXCEPT ![c] = r.err]
                /\ pc' = [pc EXCEPT ![c] = "failed"]
                /\ UNCHANGED <<grpcCredentials, activeServiceMap_,
                               constructed, service, numAttempts, stubCalls,
                               underlying>>
           ELSE /\ grpcCredentials' = r.credentials
                /\ requestStreamBody(c, callSpec[c], r.credentials)
                /\ UNCHANGED <<destroyArg, destroyed, destroyErr>>
    /\ authFailed' = [authFailed EXCEPT ![c] = ~ok]
    /\ UNCHANGED pureVars
    /\ UNCHANGED <<sandbox, maxRetries, stubCodes, protoOptsStream, kind,
                   callSpec, ret, startedWithCreds, authCalls, respError, inFlight, cb,
                   last, firstOk, retryableFails, startedAfterFailure,
                   streamOf, delivered, callerDestroyed>>

\* The underlying call ends with a status (lines 328-332): the listener emits
\* the translated status as the response, and the retry layer either reopens
\* the call later or lets the cached data through.
streamStatus(c, code) ==
    /\ kind[c] = "stream"
    /\ pc[c] = "open"
    /\ underlying' = [underlying EXCEPT ![c] = "ended"]
    /\ pc' = [pc EXCEPT
                 ![c] = IF retryLayerRetries(Null,
                                             onStatus(RawError(numAttempts[c], code)),
                                             numAttempts[c], maxRetries)
                        THEN "backoff" ELSE "passed"]
    /\ UNCHANGED pureVars
    /\ UNCHANGED <<instVars, kind, callSpec, ret, startedWithCreds, authCalls,
                   service, numAttempts, stubCalls, respError, inFlight, cb, last,
                   firstOk, retryableFails, authFailed, startedAfterFailure,
                   streamOf, piped, destroyArg, destroyed, destroyErr,
                   delivered, callerDestroyed>>

\* The retry layer's timer fires: the underlying call is opened again
\* (lines 326-327).
streamRetryTimer(c) ==
    /\ kind[c] = "stream"
    /\ pc[c] = "backoff"
    /\ numAttempts' = [numAttempts EXCEPT ![c] = @ + 1]
    /\ stubCalls' = [stubCalls EXCEPT ![c] = @ + 1]
    /\ underlying' = [underlying EXCEPT ![c] = "open"]
    /\ pc' = [pc EXCEPT ![c] = "open"]
    /\ UNCHANGED pureVars
    /\ UNCHANGED <<instVars, kind, callSpec, ret, startedWithCreds, authCalls,
                   service, respError, inFlight, cb, last, firstOk, retryableFails,
                   authFailed, startedAfterFailure, streamOf, piped,
                   destroyArg, destroyed, destroyErr, delivered,
                   callerDestroyed>>

\* The retry-wrapped stream emits an error (lines 337-341): the listener
\* destroys the caller-visible stream with the translated error.
streamError(c, code) ==
    /\ kind[c] = "stream"
    /\ pc[c] = "open"
    /\ underlying' = [underlying EXCEPT ![c] = "ended"]
    /\ destroyStream(streamOf[c], onStreamError(RawError(numAttempts[c], code)))
    /\ destroyArg' = [destroyArg EXCEPT
                         ![c] = onStreamError(RawError(numAttempts[c], code))]
    /\ pc' = [pc EXCEPT ![c] = "failed"]
    /\ last' = [last EXCEPT
                   ![c] = [err |-> RawError(numAttempts[c], code),
                           resp |-> Null]]
    /\ UNCHANGED pureVars
    /\ UNCHANGED <<instVars, kind, callSpec, ret, startedWithCreds, authCalls,
                   service, numAttempts, stubCalls, respError, inFlight, cb, firstOk,
                   retryableFails, authFailed, startedAfterFailure, streamOf,
                   delivered, callerDestroyed>>

\* A chunk flows through the pipe into the caller-visible stream (line 342).
deliver(c) ==
    /\ kind[c] = "stream"
    /\ pc[c] = "passed"
    /\ piped[c]
    /\ delivered[streamOf[c]] < MaxData
    /\ delivered' = [delivered EXCEPT ![streamOf[c]] = @ + 1]
    /\ UNCHANGED pureVars
    /\ UNCHANGED <<instVars, callVars, streamOf, underlying, piped, destroyArg,
                   destroyed, destroyErr, callerDestroyed>>

\* The caller destroys the stream requestStream returned.  Nothing in
\* requestStream listens for it (lines 321-342 attach no close handler).
callerDestroy(c) ==
    /\ kind[c] = "stream"
    /\ ret[c] = "stream"
    /\ ~destroyed[streamOf[c]]
    /\ destroyStream(streamOf[c], Null)
    /\ callerDestroyed' = [callerDestroyed EXCEPT ![streamOf[c]] = TRUE]
    /\ UNCHANGED pureVars
    /\ UNCHANGED <<instVars, callVars, streamOf, underlying, destroyArg,
                   delivered>>

(* ----------------------------- static helpers -------------------------- *)

\* The calls, the instance and the streams are not involved.
PureFrame == UNCHANGED <<instVars, callVars, streamVars>>

\* GrpcService.objToStruct_(arg, opts) is called.
callObjToStruct ==
    /\ fn = "none"
    /\ arg.t = "object"
    /\ fn' = "objToStruct_"
    /\ out' = objToStruct_(arg, opts)
    /\ UNCHANGED <<arg, opts, back, argAfter>>
    /\ PureFrame

\* GrpcService.encodeValue_(arg, opts) is called.
callEncodeValue ==
    /\ fn = "none"
    /\ fn' = "encodeValue_"
    /\ out' = encodeValue_(arg, opts)
    /\ UNCHANGED <<arg, opts, back, argAfter>>
    /\ PureFrame

\* GrpcService.structToObj_ is called with what objToStruct_ returned.
callStructToObj ==
    /\ fn = "objToStruct_"
    /\ ~IsThrown(out)
    /\ fn' = "structToObj_"
    /\ back' = structToObj_(out)
    /\ UNCHANGED <<arg, opts, out, argAfter>>
    /\ PureFrame

\* GrpcService.decodeValue_ is called with what encodeValue_ returned.
callDecodeValue ==
    /\ fn = "encodeValue_"
    /\ ~IsThrown(out)
    /\ fn' = "decodeValue_"
    /\ back' = decodeValue_(out)
    /\ UNCHANGED <<arg, opts, out, argAfter>>
    /\ PureFrame

\* GrpcService.getError_(arg) is called.
callGetError ==
    /\ fn = "none"
    /\ arg.obj = "raw"
    /\ fn' = "getError_"
    /\ out' = getErrorCall(arg).ret
    /\ argAfter' = getErrorCall(arg).err
    /\ UNCHANGED <<arg, opts, back>>
    /\ PureFrame

\* GrpcService.shouldRetryRequest_(arg) is called.
callShouldRetryRequest ==
    /\ fn = "none"
    /\ arg.obj = "payload"
    /\ fn' = "shouldRetryRequest_"
    /\ out' = shouldRetryRequest_(arg)
    /\ UNCHANGED <<arg, opts, back, argAfter>>
    /\ PureFrame

\* The retry predicate is given the error getError_ translated, as the producer
\* of request hands it over (lines 247-250).
callShouldRetryTranslated ==
    /\ fn = "getError_"
    /\ out # Null
    /\ fn' = "shouldRetryRequest_(getError_)"
    /\ back' = shouldRetryRequest_(out)
    /\ UNCHANGED <<arg, opts, out, argAfter>>
    /\ PureFrame

\* The errors given to getError_: a transport code (or none), a message, and a
\* field of their own.
ErrorInputs ==
    {[obj |-> "raw", at |-> 1, code |-> code, message |-> message,
      metadata |-> metadata] :
        code \in StubCodes, message \in {"", "transport"},
        metadata \in {"none", "trailers"}}

\* The responses given to shouldRetryRequest_.
ResponseInputs ==
    {Payload(1, code) : code \in (0..MaxResponseCode) \cup {NoCode}}

\* Before a call of getError_ or shouldRetryRequest_.
InitErrors ==
    /\ sandbox = FALSE
    /\ maxRetries = 0
    /\ stubCodes = {}
    /\ grpcCredentials = Absent
    /\ kind = [c \in Calls |-> "unused"]
    /\ InitState
    /\ fn = "none"
    /\ arg \in ErrorInputs \cup ResponseInputs
    /\ opts = JUndefined
    /\ out = JUndefined
    /\ back = JUndefined
    /\ argAfter = JUndefined

NextErrors ==
    \/ callGetError
    \/ callShouldRetryRequest
    \/ callShouldRetryTranslated

\* The error translation and the retry predicate applied to one value.
SpecErrors == InitErrors /\ [][NextErrors]_vars

\* Before a call of the encoder: no call is made on the instance.
InitCodec ==
    /\ sandbox = FALSE
    /\ maxRetries = 0
    /\ stubCodes = {}
    /\ grpcCredentials = Absent
    /\ kind = [c \in Calls |-> "unused"]
    /\ InitState
    /\ fn = "none"
    /\ arg \in CodecInputs
    /\ opts \in CodecOptions
    /\ out = JUndefined
    /\ back = JUndefined
    /\ argAfter = JUndefined

NextCodec ==
    \/ callObjToStruct
    \/ callEncodeValue
    \/ callStructToObj
    \/ callDecodeValue

\* The encoder applied to one value, and the decoder to what it returned.
SpecCodec == InitCodec /\ [][NextCodec]_vars

(* ----------------------------- specification --------------------------- *)

Next ==
    \/ \E c \in Calls, p \in ProtoOpts : request(c, p)
    \/ \E c \in Calls, ok \in BOOLEAN : requestAuthCallback(c, ok)
    \/ \E c \in Calls : \E o \in StubOutcomes(numAttempts[c], stubCodes) :
          stubCallback(c, o)
    \/ \E c \in Calls : retryTimer(c)
    \/ \E c \in Calls, p \in ProtoOpts : requestStream(c, p)
    \/ \E c \in Calls, ok \in BOOLEAN : requestStreamAuthCallback(c, ok)
    \/ \E c \in Calls : \E code \in stubCodes \ {NoCode} : streamStatus(c, code)
    \/ \E c \in Calls : streamRetryTimer(c)
    \/ \E c \in Calls : \E code \in stubCodes : streamError(c, code)
    \/ \E c \in Calls : deliver(c)
    \/ \E c \in Calls : callerDestroy(c)

\* Calls that may overlap, against a stub with a sample of codes.
Spec == Init /\ [][Next]_vars

\* One call, against a stub with every code.
SpecCall == InitCall /\ [][Next]_vars

\* What the scheduling guarantees: the credential provider and the unary stub
\* call back, the retry layer's timers fire, and a piped chunk is delivered.
\* Nothing makes a caller start a call or destroy a stream, nor the server end
\* an open streaming call.
Fairness ==
    \A c \in Calls :
        /\ WF_vars(\E ok \in BOOLEAN : requestAuthCallback(c, ok))
        /\ WF_vars(\E o \in StubOutcomes(numAttempts[c], stubCodes) :
                      stubCallback(c, o))
        /\ WF_vars(retryTimer(c))
        /\ WF_vars(\E ok \in BOOLEAN : requestStreamAuthCallback(c, ok))
        /\ WF_vars(streamRetryTimer(c))
        /\ WF_vars(deliver(c))

\* Spec with the callbacks and timers that are due eventually run.
FairSpec == Spec /\ Fairness


(* -------------------------------- claims ------------------------------- *)

\* The unary calls made with the sandbox flag unset.
Unary(c) == kind[c] = "unary" /\ ~sandbox

\* The streaming calls made with the sandbox flag unset.
Streaming(c) == kind[c] = "stream" /\ ~sandbox

\* C1: a unary call made with the sandbox flag unset, when the credential
\* provider and the stub always call back, has its callback invoked exactly
\* once: never twice, and eventually once; that invocation carries an error or
\* a payload, never both.
C1_ExactlyOneCallback ==
    /\ [](\A c \in Calls : Unary(c) =>
            /\ cb[c].count <= 1
            /\ cb[c].count = 1 => ((cb[c].err # Null) # (cb[c].resp # Null)))
    /\ \A c \in Calls : Unary(c) ~> (cb[c].count = 1)

\* C1 witness: a call that acquired credentials, was retried until the retries
\* were exhausted, and called back once with the error.
C1_Witness ==
    \E c \in Calls :
        /\ Unary(c)
        /\ authCalls[c] = 1
        /\ maxRetries >= 1
        /\ retryableFails[c] = maxRetries + 1
        /\ cb[c].count = 1
        /\ cb[c].err # Null

\* C2: when the stub fails k times with retryable codes and then succeeds with
\* payload P, and maxRetries >= k, the call ends there: P is delivered with no
\* error and the stub has been invoked exactly k+1 times.
C2_RetryThenSuccess ==
    \A c \in Calls :
        (/\ Unary(c)
         /\ firstOk[c] # Null
         /\ retryableFails[c] = firstOk[c].at - 1
         /\ firstOk[c].at - 1 <= maxRetries)
        => /\ pc[c] = "done"
           /\ cb[c] = [count |-> 1, err |-> Null, resp |-> firstOk[c]]
           /\ stubCalls[c] = firstOk[c].at

\* C3: a failure with a transport code of the table whose httpLikeCode is not
\* a retry code ends the call: the stub is not invoked again (it is invoked
\* exactly once when that was the first attempt), whatever maxRetries is, and
\* the callback gets the normalized error and no payload.
C3_TerminalFailure ==
    \A c \in Calls :
        (/\ Unary(c)
         /\ last[c].err # Null
         /\ last[c].err.code \in DOMAIN GRPC_ERROR_CODE_TO_HTTP
         /\ ~RetryableTransport(last[c].err.code))
        => /\ pc[c] = "done"
           /\ cb[c] = [count |-> 1, err |-> Normalized(last[c].err),
                       resp |-> Null]
           /\ stubCalls[c] = last[c].err.at
           /\ (retryableFails[c] = 0 /\ firstOk[c] = Null) => stubCalls[c] = 1

\* C3 witness: a deadline-exceeded failure (4 -> 504) on the first attempt,
\* with two retries allowed, ended the call after one invocation.
C3_Witness ==
    \E c \in Calls :
        /\ Unary(c)
        /\ maxRetries = 2
        /\ last[c].err.code = 4
        /\ stubCalls[c] = 1
        /\ cb[c].count = 1
        /\ cb[c].err.code = 504

\* C4: a call invokes the stub at most maxRetries + 1 times; when every one of
\* the maxRetries + 1 attempts failed with a retryable code the call has ended
\* and the callback got, with no payload, the normalized error of the last
\* attempt.
C4_ExhaustedRetries ==
    \A c \in Calls :
        Unary(c) =>
            /\ stubCalls[c] <= maxRetries + 1
            /\ retryableFails[c] = maxRetries + 1
               => /\ pc[c] = "done"
                  /\ stubCalls[c] = maxRetries + 1
                  /\ last[c].err.at = maxRetries + 1
                  /\ cb[c] = [count |-> 1, err |-> Normalized(last[c].err),
                              resp |-> Null]

\* C4 witness: three attempts, all failed with a retryable code, the last one
\* with 14 (-> 503).
C4_Witness ==
    \E c \in Calls :
        /\ Unary(c)
        /\ maxRetries = 2
        /\ retryableFails[c] = 3
        /\ last[c].err.code = 14
        /\ cb[c].err.code = 503
        /\ cb[c].err.at = 3

\* C5: a failure whose code is not in the table (17, or no code) ends the
\* call: the raw error object is the callback's error, unchanged, and the stub
\* is not invoked again, whatever maxRetries is.
C5_UnmappedError ==
    \A c \in Calls :
        (/\ Unary(c)
         /\ last[c].err # Null
         /\ last[c].err.code \notin DOMAIN GRPC_ERROR_CODE_TO_HTTP)
        => /\ pc[c] = "done"
           /\ cb[c].count = 1
           /\ cb[c].err = last[c].err
           /\ stubCalls[c] = last[c].err.at

\* C5 witness: code 17 on the first attempt, with two retries allowed.
C5_Witness ==
    \E c \in Calls :
        /\ Unary(c)
        /\ maxRetries = 2
        /\ last[c].err.code = 17
        /\ stubCalls[c] = 1
        /\ cb[c].err = RawError(1, 17)

\* C6: the credential provider is invoked only by a call that found the
\* credentials absent, at most once per call; a call made when credentials
\* are present, and any call on an instance built in the insecure mode,
\* never invokes it.
C6_CredentialGateReuse ==
    /\ \A c \in Calls :
          /\ authCalls[c] <= 1
          /\ startedWithCreds[c] => authCalls[c] = 0
    /\ grpcCredentials = Insecure => \A c \in Calls : authCalls[c] = 0

\* C6 witness: one call acquired the credentials; a later call, made when they
\* were present, reached the stub without invoking the provider.
C6_Witness ==
    \E c, d \in Calls :
        /\ authCalls[c] = 1
        /\ grpcCredentials = c
        /\ startedWithCreds[d]
        /\ stubCalls[d] >= 1
        /\ authCalls[d] = 0

\* C7: when the credential provider reports an error to a unary call, the
\* callback gets that very error, once, and no payload; the call resolves no
\* service and invokes no stub; the step that handles the failure leaves the
\* credentials cache and the registry as they were, and the failed acquisition
\* never populates the cache; and a call made afterwards with the cache still
\* absent invokes the provider again.
C7_CredentialFailure ==
    /\ [](\A c \in Calls :
            /\ (Unary(c) /\ authFailed[c])
               => /\ cb[c] = [count |-> 1, err |-> AuthError(c), resp |-> Null]
                  /\ service[c] = NoStub
                  /\ numAttempts[c] = 0
                  /\ stubCalls[c] = 0
                  /\ grpcCredentials # c
            /\ (kind[c] \in {"unary", "stream"} /\ ~sandbox
                  /\ startedAfterFailure[c] /\ ~startedWithCreds[c])
               => authCalls[c] = 1)
    /\ [][\A c \in Calls :
            (Unary(c) /\ ~authFailed[c] /\ authFailed'[c])
            => /\ grpcCredentials' = grpcCredentials
               /\ activeServiceMap_' = activeServiceMap_
               /\ constructed' = constructed]_vars

\* C7 witness: a unary call failed to get credentials, the cache is absent,
\* and the call made after it invoked the provider.
C7_Witness ==
    \E c, d \in Calls :
        /\ Unary(c)
        /\ authFailed[c]
        /\ cb[c].err = AuthError(c)
        /\ grpcCredentials = Absent
        /\ startedAfterFailure[d]
        /\ authCalls[d] = 1

\* C8: a call has resolved its service before it invokes the stub, and
\* credentials are present whenever a service has been resolved: no stub is
\* constructed with absent credentials, and none is invoked while they are
\* absent.
C8_Ordering ==
    /\ \A c \in Calls :
          /\ stubCalls[c] > 0 => service[c] # NoStub
          /\ service[c] # NoStub
             => /\ grpcCredentials # Absent
                /\ service[c].creds # Absent
    /\ \A s \in ProtoOpts :
          /\ constructed[s] > 0 => grpcCredentials # Absent
          /\ activeServiceMap_[s] # NoStub
             => activeServiceMap_[s].creds # Absent

\* C8 witness: a unary call that had to acquire credentials and a streaming
\* call have both invoked the stub.
C8_Witness ==
    \E c, d \in Calls :
        /\ Unary(c)
        /\ authCalls[c] = 1
        /\ stubCalls[c] > 0
        /\ Streaming(d)
        /\ stubCalls[d] > 0

\* C9: once the caller has destroyed the stream while the underlying call is
\* open, the underlying call is torn down: it does not stay open for ever.
C9_Teardown ==
    \A c \in Calls :
        (/\ Streaming(c)
         /\ callerDestroyed[streamOf[c]]
         /\ underlying[c] = "open")
        ~> (underlying[c] # "open")

\* C10: requestStream returns the caller-visible stream at once, also while
\* credentials are being acquired; when the acquisition fails the stream is
\* destroyed with the acquisition error and no underlying call is opened; when
\* the retry-wrapped stream emits an error the stream is destroyed with the
\* normalized error if the code is in the table, and with the raw error if not.
\* (A stream destroyed before keeps the error it was first destroyed with.)
C10_StreamFailure ==
    \A c \in Calls :
        Streaming(c) =>
            /\ ret[c] = "stream"
            /\ streamOf[c] \in Calls
            /\ authFailed[c]
               => /\ destroyed[streamOf[c]]
                  /\ destroyArg[c] = AuthError(c)
                  /\ stubCalls[c] = 0
                  /\ underlying[c] = "none"
            /\ last[c].err # Null
               => /\ destroyed[streamOf[c]]
                  /\ destroyArg[c] =
                        IF last[c].err.code \in DOMAIN GRPC_ERROR_CODE_TO_HTTP
                        THEN Normalized(last[c].err)
                        ELSE last[c].err
            /\ (destroyArg[c] # Null /\ ~callerDestroyed[streamOf[c]]
                  /\ \A d \in Calls : (d # c /\ streamOf[d] = streamOf[c])
                                         => destroyArg[d] = Null)
               => destroyErr[streamOf[c]] = destroyArg[c]

\* C10 witness: one stream was destroyed with a normalized error (5 -> 404),
\* another with the acquisition error while its call was never opened.
C10_Witness ==
    \E c, d \in Calls :
        /\ Streaming(c)
        /\ last[c].err.code = 5
        /\ destroyErr[streamOf[c]] = Normalized(last[c].err)
        /\ Streaming(d)
        /\ authFailed[d]
        /\ destroyErr[streamOf[d]] = AuthError(d)

\* C11: while the sandbox flag is set no call invokes the credential provider,
\* resolves a service, constructs or invokes a stub; request has returned the
\* sentinel and requestStream an empty stream of its own (not the callSpec's);
\* and no step changes the credentials cache or the registry.
C11_Sandbox ==
    /\ [](sandbox =>
            /\ \A c \in Calls :
                  /\ authCalls[c] = 0
                  /\ service[c] = NoStub
                  /\ stubCalls[c] = 0
                  /\ underlying[c] = "none"
                  /\ kind[c] = "unary" => ret[c] = "sentinel"
                  /\ kind[c] = "stream"
                     => /\ ret[c] = "emptyStream"
                        /\ streamOf[c] = 0
            /\ \A s \in ProtoOpts :
                  /\ constructed[s] = 0
                  /\ activeServiceMap_[s] = NoStub)
    /\ [][sandbox => /\ grpcCredentials' = grpcCredentials
                     /\ activeServiceMap_' = activeServiceMap_
                     /\ constructed' = constructed]_vars

\* C11 witness: with the flag set, a request and a requestStream have both
\* returned.
C11_Witness ==
    \E c, d \in Calls :
        /\ sandbox
        /\ kind[c] = "unary"
        /\ ret[c] = "sentinel"
        /\ kind[d] = "stream"
        /\ ret[d] = "emptyStream"

\* The values the round-trip law speaks of: null, numbers, strings, booleans,
\* blobs, and lists and objects of such values (no undefined, no other type).
RECURSIVE Supported(_)

Supported(value) ==
    CASE value.t \in {"null", "number", "string", "boolean", "blob"} -> TRUE
      [] value.t = "array" -> \A i \in DOMAIN value.v : Supported(value.v[i])
      [] value.t = "object" ->
            \A prop \in DOMAIN value.v : Supported(value.v[prop])
      [] OTHER -> FALSE

\* C12: for every supported object v, structToObj_ applied to what
\* objToStruct_(v) returned gives v back.
C12_RoundTrip ==
    (fn = "structToObj_" /\ Supported(arg)) => back = arg

\* A value of a type the encoder does not recognize.
Unrecognized(value) == value.t \in {"other", "undefined"}

\* The options object asks for stringify.
StringifyOn(options) == options = JObj(Msg("stringify", JBool(TRUE)))

\* C15: encoding an unrecognized value without stringify throws and returns
\* nothing; with stringify it returns a string leaf holding String(value), and
\* decoding that leaf gives that string; a list with an unrecognized element
\* throws, with stringify too.
C15_Unsupported ==
    /\ (fn \in {"encodeValue_", "decodeValue_"} /\ Unrecognized(arg))
       => IF StringifyOn(opts)
          THEN out = [stringValue |-> JStr(StringOf(arg))]
          ELSE out = Thrown
    /\ (fn = "decodeValue_" /\ Unrecognized(arg) /\ StringifyOn(opts))
       => back = JStr(StringOf(arg))
    /\ (fn = "encodeValue_" /\ arg.t = "array"
          /\ \E i \in DOMAIN arg.v : Unrecognized(arg.v[i]))
       => out = Thrown

\* C13: shouldRetryRequest_ answers true exactly for the codes 429, 500, 502
\* and 503 (so false for 200, 401, 404, 504 and a response without code); and
\* given the translation of a transport error it answers true exactly for the
\* transport codes whose table entry has one of these four codes.
C13_RetryPredicate ==
    /\ fn = "shouldRetryRequest_"
       => /\ out = (arg.code \in RetryCodes)
          /\ arg.code \in {200, 401, 404, 504, NoCode} => out = FALSE
    /\ fn = "shouldRetryRequest_(getError_)"
       => back = RetryableTransport(arg.code)

\* C13 witness: the predicate accepted 429 translated from transport code 8.
C13_Witness ==
    /\ fn = "shouldRetryRequest_(getError_)"
    /\ arg.code = 8
    /\ out.code = 429
    /\ back = TRUE

\* C14: getError_ returns an object exactly for the transport codes 0..16;
\* that object is a new one, has the table entry's code and message and err's
\* other fields, and err is as it was before the call.
C14_ErrorTranslation ==
    fn \in {"getError_", "shouldRetryRequest_(getError_)"}
    => /\ (out # Null) = (arg.code \in 0..16)
       /\ out # Null
          => /\ out.obj # arg.obj
             /\ out.code = GRPC_ERROR_CODE_TO_HTTP[arg.code].code
             /\ out.message = GRPC_ERROR_CODE_TO_HTTP[arg.code].message
             /\ out.metadata = arg.metadata
             /\ out.at = arg.at
             /\ DOMAIN out = DOMAIN arg
       /\ argAfter = arg

\* C14 witness: transport code 0 was translated to 200 "OK", and the error
\* kept its own fields.
C14_Witness ==
    /\ fn = "getError_"
    /\ arg.code = 0
    /\ arg.metadata = "trailers"
    /\ out.code = 200
    /\ out.message = "OK"
    /\ out.metadata = "trailers"
    /\ argAfter.code = 0

\* C16: a unary call has at most one stub invocation that has not called
\* back; it invokes the stub again only when none is outstanding and the
\* attempt before has called back; and its respError changes only in steps of
\* the call itself, whatever other calls are in flight.
C16_SequentialRetries ==
    /\ [](\A c \in Calls : Unary(c) => inFlight[c] \in {0, 1})
    /\ [][\A c \in Calls :
            /\ (Unary(c) /\ stubCalls'[c] > stubCalls[c])
               => /\ inFlight[c] = 0
                  /\ stubCalls[c] > 0
                     => (IF last[c].err # Null
                         THEN last[c].err.at ELSE last[c].resp.at)
                        = stubCalls[c]
            /\ respError'[c] # respError[c] => pc'[c] # pc[c]]_vars

\* C16 witness: one call has its second attempt in flight while another
\* call's attempt is in flight too.
C16_Witness ==
    \E c, d \in Calls :
        /\ c # d
        /\ Unary(c)
        /\ Unary(d)
        /\ stubCalls[c] = 2
        /\ inFlight[c] = 1
        /\ inFlight[d] = 1

\* C17: at most one stub is constructed for a service name; a registry entry,
\* once stored, is never removed or replaced; and a call that resolves its
\* service when the registry has the entry gets that very stub.
C17_ServiceRegistry ==
    /\ [](\A s \in ProtoOpts :
            /\ constructed[s] <= 1
            /\ (constructed[s] = 1) = (activeServiceMap_[s] # NoStub))
    /\ [][\A s \in ProtoOpts :
            /\ activeServiceMap_[s] # NoStub
               => activeServiceMap_'[s] = activeServiceMap_[s]
            /\ \A c \in Calls :
                  (service'[c] # service[c] /\ ServiceOf(callSpec'[c]) = s)
                  => /\ service'[c] = activeServiceMap_'[s]
                     /\ activeServiceMap_[s] # NoStub
                        => /\ service'[c] = activeServiceMap_[s]
                           /\ constructed'[s] = constructed[s]]_vars

\* C17 witness: a request and a requestStream for the same service share the
\* one stub constructed for it, while another service has its own.
C17_Witness ==
    \E c, d \in Calls :
        /\ Unary(c)
        /\ Streaming(d)
        /\ callSpec[c] = callSpec[d]
        /\ service[c] # NoStub
        /\ service[c] = service[d]
        /\ constructed[callSpec[c]] = 1

\* The calls whose acquisition succeeded: each ran the assignment
\* self.grpcCredentials = credentials (lines 213 and 305).
Assigned ==
    {c \in Calls : authCalls[c] = 1 /\ pc[c] # "auth" /\ ~authFailed[c]}

\* C18: the credentials cache is assigned at most once, and every stub of the
\* registry was constructed with the credentials the instance holds.
C18_CredentialsOnce ==
    /\ Cardinality(Assigned) <= 1
    /\ \A s \in ProtoOpts :
          activeServiceMap_[s] # NoStub
          => activeServiceMap_[s].creds = grpcCredentials

\* C19: no call adds a field to the callSpec object it was given, and the
\* streams two requestStream calls return are two streams, also when both were
\* given the same callSpec object.
C19_CallSpecImmutable ==
    /\ \A p \in ProtoOpts : protoOptsStream[p] = 0
    /\ \A c, d \in Calls :
          (c # d /\ Streaming(c) /\ Streaming(d)) => streamOf[c] # streamOf[d]

\* C20: once the stub has called back without error, the call is over: the
\* stub is not invoked again and the callback has got that payload, and no
\* error, whatever the payload holds.
C20_SuccessEndsCall ==
    \A c \in Calls :
        (Unary(c) /\ firstOk[c] # Null)
        => /\ pc[c] = "done"
           /\ stubCalls[c] = firstOk[c].at
           /\ cb[c] = [count |-> 1, err |-> Null, resp |-> firstOk[c]]

====
